---- MODULE Spec2Model ----
(***************************************************************************)
(* A model of src/sampling.py: the flux sampler's forward-pass             *)
(* orchestrator (model_forward), the packing codec and positional ids      *)
(* (prepare, unpack), the schedule generator (get_schedule) and the two    *)
(* denoising loops (denoise, denoise_controlnet).                          *)
(*                                                                         *)
(* Numbers.  Timesteps are counted in ticks of one half, latents and       *)
(* predictions are integers: on this dyadic grid every float operation of  *)
(* the loops is exact, so integer arithmetic is the code's arithmetic.     *)
(* A latent tensor is stood for by one element: every tensor operation of  *)
(* the loops is elementwise.                                               *)
(***************************************************************************)
EXTENDS Integers, Sequences, FiniteSets, TLC

VARIABLES
    \* ---- denoise / denoise_controlnet: arguments
    model,                  \* the stub network handed to model_forward
    timesteps,              \* list of timesteps, in ticks
    guidance,
    true_gs,
    controlnet_gs,
    timestep_to_start_cfg,
    img0,                   \* the img argument as passed in
    \* ---- denoise / denoise_controlnet: locals
    dpc,                    \* position in the function body
    img,
    i,
    pos,                    \* index of the zip iterator: pairs consumed so far
    pred,
    neg_pred,
    block_res_samples,
    neg_block_res_samples,
    calls,                  \* instrumentation: the calls made to the stubs, in order
    \* ---- model_forward: arguments
    f_params,               \* model.params and the block counts of the stub network
    f_img_ndim,
    f_txt_ndim,
    f_guidance,
    f_hidden_states,        \* block_controlnet_hidden_states
    f_img0,                 \* the img and txt arguments (token sequences)
    f_txt0,
    \* ---- model_forward: locals
    fpc,
    f_img,
    f_txt,
    f_vec,
    f_pe,
    controlnet_depth,
    index_block,
    f_result,               \* running, returned (with the prediction) or the error raised
    trace,                  \* instrumentation: the sub-components invoked, in order
    block_io,               \* instrumentation: what each dual-stream block got and returned
    \* ---- get_schedule: arguments
    num_steps,
    image_seq_len,
    base_shift,
    max_shift,
    shift,
    \* ---- get_schedule: locals
    spc,
    s_timesteps,            \* the timesteps tensor (float32)
    mu,
    s_result,               \* running, returned (with the list) or the error raised
    \* ---- prepare and unpack: arguments
    p_img,                  \* the img tensor (bs, c, h, w), of dtype p_dtype
    p_dtype,
    p_txt,                  \* txt_t5 (batch, tokens, features)
    p_vec,                  \* vec_clip (batch, features)
    \* ---- prepare and unpack: locals
    ppc,
    p_packed,               \* img after the rearrangement
    p_img_ids,
    p_txt_rep,              \* txt, vec and txt_ids after the batch broadcast
    p_vec_rep,
    p_txt_ids,
    p_result,               \* running, returned (with the dict) or the error raised
    u_result                \* what unpack returned or raised

dargs == <<model, timesteps, guidance, true_gs, controlnet_gs,
           timestep_to_start_cfg, img0>>
dvars == <<model, timesteps, guidance, true_gs, controlnet_gs,
           timestep_to_start_cfg, img0,
           dpc, img, i, pos, pred, neg_pred, block_res_samples,
           neg_block_res_samples, calls>>

fargs == <<f_params, f_img_ndim, f_txt_ndim, f_guidance, f_hidden_states,
           f_img0, f_txt0>>
fvars == <<f_params, f_img_ndim, f_txt_ndim, f_guidance, f_hidden_states,
           f_img0, f_txt0,
           fpc, f_img, f_txt, f_vec, f_pe, controlnet_depth, index_block,
           f_result, trace, block_io>>

sargs == <<num_steps, image_seq_len, base_shift, max_shift, shift>>
svars == <<num_steps, image_seq_len, base_shift, max_shift, shift,
           spc, s_timesteps, mu, s_result>>
pargs == <<p_img, p_dtype, p_txt, p_vec>>
pvars == <<p_img, p_dtype, p_txt, p_vec,
           ppc, p_packed, p_img_ids, p_txt_rep, p_vec_rep, p_txt_ids,
           p_result, u_result>>

vars == <<dvars, fvars, svars, pvars>>

-----------------------------------------------------------------------------
(* Bounds of the model *)

MaxSteps == 3      \* longest schedule has MaxSteps + 1 timesteps
MaxTick == 2       \* timesteps range over 0 .. MaxTick ticks
MaxGs == 2         \* true_gs and controlnet_gs range over 0 .. MaxGs

\* 1.0 in ticks: a tick is one half
One == 1 + 1

\* an optional value is None or Some(x)
None == {}
Some(x) == {x}
Get(o) == CHOOSE x \in o : TRUE

-----------------------------------------------------------------------------
(* Helpers *)

RECURSIVE SeqSum(_)
SeqSum(s) == IF s = <<>> THEN 0 ELSE Head(s) + SeqSum(Tail(s))

\* all sequences over S of length lo .. hi
SeqsOf(S, lo, hi) == UNION {[1..n -> S] : n \in lo..hi}

-----------------------------------------------------------------------------
(* The variables of the functions a specification does not run *)

ForwardIdle ==
    /\ f_params = None /\ f_img_ndim = 0 /\ f_txt_ndim = 0 /\ f_guidance = None
    /\ f_hidden_states = None /\ f_img0 = <<>> /\ f_txt0 = <<>>
    /\ fpc = "idle" /\ f_img = <<>> /\ f_txt = <<>> /\ f_vec = 0 /\ f_pe = 0
    /\ controlnet_depth = None /\ index_block = 0
    /\ f_result = [kind |-> "idle"] /\ trace = <<>> /\ block_io = <<>>

DenoiseIdle ==
    /\ model = None /\ timesteps = <<>> /\ guidance = 0 /\ true_gs = 0
    /\ controlnet_gs = 0 /\ timestep_to_start_cfg = 0 /\ img0 = 0
    /\ dpc = "idle" /\ img = 0 /\ i = 0 /\ pos = 0 /\ pred = None
    /\ neg_pred = None /\ block_res_samples = None
    /\ neg_block_res_samples = None /\ calls = <<>>

ScheduleIdle ==
    /\ num_steps = 0 /\ image_seq_len = 0 /\ base_shift = None
    /\ max_shift = None /\ shift = FALSE
    /\ spc = "idle" /\ s_timesteps = <<>> /\ mu = None
    /\ s_result = [kind |-> "idle"]

PrepareIdle ==
    /\ p_img = None /\ p_dtype = "idle" /\ p_txt = None /\ p_vec = None
    /\ ppc = "idle" /\ p_packed = None /\ p_img_ids = None
    /\ p_txt_rep = None /\ p_vec_rep = None /\ p_txt_ids = None
    /\ p_result = [kind |-> "idle"] /\ u_result = [kind |-> "idle"]

-----------------------------------------------------------------------------
(* The stub collaborators *)

\* the conditional and the negative conditioning inputs of denoise
Cond == [txt |-> "txt", txt_ids |-> "txt_ids", y |-> "vec"]
NegCond == [txt |-> "neg_txt", txt_ids |-> "neg_txt_ids", y |-> "neg_vec"]

StubModels ==
    {[kind |-> "const", c |-> c] : c \in {-1, 1}}
        \cup {[kind |-> "dyn", c |-> 0]}

\* what a forward pass of stub network m returns for call arguments a:
\* a constant, or a value that depends on every argument
StubForward(m, a) ==
    IF m.kind = "const" THEN m.c
    ELSE ((a.img + 2 * a.timesteps + (IF a.txt = Cond.txt THEN 0 ELSE 1)
            + (IF a.block_controlnet_hidden_states = None THEN 0
               ELSE SeqSum(Get(a.block_controlnet_hidden_states)) + 1)) % 5) - 2

\* what the stub controlnet returns: two residuals that depend on the latent,
\* the timestep and the conditioning
StubControlnet(a) ==
    << (a.img + a.timesteps) % 3, IF a.txt = Cond.txt THEN 1 ELSE 2 >>

ForwardArgs(im, c, t_vec, guidance_vec, res) ==
    [fn |-> "model_forward", img |-> im, img_ids |-> "img_ids",
     txt |-> c.txt, txt_ids |-> c.txt_ids, y |-> c.y,
     timesteps |-> t_vec, guidance |-> guidance_vec,
     block_controlnet_hidden_states |-> res]

ControlnetArgs(im, c, t_vec, guidance_vec) ==
    [fn |-> "controlnet", img |-> im, img_ids |-> "img_ids",
     controlnet_cond |-> "controlnet_cond",
     txt |-> c.txt, txt_ids |-> c.txt_ids, y |-> c.y,
     timesteps |-> t_vec, guidance |-> guidance_vec]

-----------------------------------------------------------------------------
(* denoise *)

\* the pair the zip iterator yields next
t_curr == timesteps[pos + 1]
t_prev == timesteps[pos + 2]
NumPairs == Len(timesteps) - 1

CfgActiveOffByOne(step, start) == step + 1 >= start
\* `if i >= timestep_to_start_cfg`
CfgActive(step, start) == step >= start

BlendSwapped(p, np, gs) == p + gs * (np - p)
\* `pred = neg_pred + true_gs * (pred - neg_pred)`
Blend(p, np, gs) == np + gs * (p - np)

EulerStepReversed(im, tc, tp, p) == im + (tc - tp) * p
\* `img = img + (t_prev - t_curr) * pred`
EulerStep(im, tc, tp, p) == im + (tp - tc) * p

\* a schedule never rises
NonIncreasing(s) == \A k \in 1..(Len(s) - 1) : s[k] >= s[k + 1]

DenoiseArgs ==
    /\ model \in StubModels
    /\ timesteps \in SeqsOf(0..MaxTick, 1, MaxSteps + 1)
    /\ guidance = 4
    /\ true_gs \in 0..MaxGs
    /\ timestep_to_start_cfg \in 0..(MaxSteps + 1)
    /\ img0 \in {0, 1}

DenoiseInit ==
    /\ DenoiseArgs
    /\ controlnet_gs = 0
    /\ dpc = "denoise"
    /\ img = img0
    /\ i = 0
    /\ pos = 0
    /\ pred = None
    /\ neg_pred = None
    /\ block_res_samples = None
    /\ neg_block_res_samples = None
    /\ calls = <<>>
    /\ ForwardIdle
    /\ ScheduleIdle
    /\ PrepareIdle

\* the loop head: the zip iterator yields the next pair
DenoiseNext ==
    /\ dpc = "denoise"
    /\ pos < NumPairs
    /\ dpc' = "forward"
    /\ UNCHANGED <<fvars, svars, pvars, dargs, img, i, pos, pred, neg_pred,
                   block_res_samples, neg_block_res_samples, calls>>

\* the conditional forward pass
DenoiseForward ==
    /\ dpc = "forward"
    /\ LET a == ForwardArgs(img, Cond, t_curr, guidance, None)
       IN /\ pred' = StubForward(model, a)
          /\ calls' = Append(calls, a)
    /\ dpc' = "cfg"
    /\ UNCHANGED <<fvars, svars, pvars, dargs, img, i, pos, neg_pred,
                   block_res_samples, neg_block_res_samples>>

\* the guarded negative forward pass and the blend
DenoiseCfg ==
    /\ dpc = "cfg"
    /\ IF CfgActive(i, timestep_to_start_cfg)
       THEN LET a == ForwardArgs(img, NegCond, t_curr, guidance, None)
                np == StubForward(model, a)
            IN /\ neg_pred' = np
               /\ pred' = Blend(pred, np, true_gs)
               /\ calls' = Append(calls, a)
       ELSE UNCHANGED <<pred, neg_pred, calls>>
    /\ dpc' = "update"
    /\ UNCHANGED <<fvars, svars, pvars, dargs, img, i, pos, block_res_samples,
                   neg_block_res_samples>>

\* the Euler update and the step counter
DenoiseUpdate ==
    /\ dpc = "update"
    /\ img' = EulerStep(img, t_curr, t_prev, pred)
    /\ i' = i + 1
    /\ pos' = pos + 1
    /\ dpc' = "denoise"
    /\ UNCHANGED <<fvars, svars, pvars, dargs, pred, neg_pred,
                   block_res_samples, neg_block_res_samples, calls>>

\* the iterator is exhausted: return img
DenoiseReturn ==
    /\ dpc = "denoise"
    /\ pos = NumPairs
    /\ dpc' = "returned"
    /\ UNCHANGED <<fvars, svars, pvars, dargs, img, i, pos, pred, neg_pred,
                   block_res_samples, neg_block_res_samples, calls>>

DenoiseStep ==
    \/ DenoiseNext
    \/ DenoiseForward
    \/ DenoiseCfg
    \/ DenoiseUpdate
    \/ DenoiseReturn

SpecDenoise == DenoiseInit /\ [][DenoiseStep]_vars

-----------------------------------------------------------------------------
(* denoise_controlnet *)

ScaleResidualsUnscaled(res, gs) == res
\* `[i * controlnet_gs for i in block_res_samples]`
ScaleResiduals(res, gs) == [k \in 1..Len(res) |-> res[k] * gs]

ControlnetInit ==
    /\ DenoiseArgs
    /\ NonIncreasing(timesteps)
    /\ controlnet_gs \in 0..MaxGs
    /\ dpc = "denoise_controlnet"
    /\ img = img0
    /\ i = 0
    /\ pos = 0
    /\ pred = None
    /\ neg_pred = None
    /\ block_res_samples = None
    /\ neg_block_res_samples = None
    /\ calls = <<>>
    /\ ForwardIdle
    /\ ScheduleIdle
    /\ PrepareIdle

\* the loop head: the zip iterator yields the next pair
ControlnetNext ==
    /\ dpc = "denoise_controlnet"
    /\ pos < NumPairs
    /\ dpc' = "controlnet"
    /\ UNCHANGED <<fvars, svars, pvars, dargs, img, i, pos, pred, neg_pred,
                   block_res_samples, neg_block_res_samples, calls>>

\* the controlnet call with the conditional inputs
ControlnetCall ==
    /\ dpc = "controlnet"
    /\ LET a == ControlnetArgs(img, Cond, t_curr, guidance)
       IN /\ block_res_samples' = StubControlnet(a)
          /\ calls' = Append(calls, a)
    /\ dpc' = "forward_cn"
    /\ UNCHANGED <<fvars, svars, pvars, dargs, img, i, pos, pred, neg_pred,
                   neg_block_res_samples>>

\* the conditional forward pass, fed the scaled residuals
ControlnetForward ==
    /\ dpc = "forward_cn"
    /\ LET a == ForwardArgs(img, Cond, t_curr, guidance,
                     Some(ScaleResiduals(block_res_samples, controlnet_gs)))
       IN /\ pred' = StubForward(model, a)
          /\ calls' = Append(calls, a)
    /\ dpc' = "cfg_cn"
    /\ UNCHANGED <<fvars, svars, pvars, dargs, img, i, pos, neg_pred,
                   block_res_samples, neg_block_res_samples>>

\* the guarded negative branch: controlnet call, forward pass, blend
ControlnetCfg ==
    /\ dpc = "cfg_cn"
    /\ IF CfgActive(i, timestep_to_start_cfg)
       THEN LET ca == ControlnetArgs(img, NegCond, t_curr, guidance)
                nres == StubControlnet(ca)
                a == ForwardArgs(img, NegCond, t_curr, guidance,
                                 Some(ScaleResiduals(nres, controlnet_gs)))
                np == StubForward(model, a)
            IN /\ neg_block_res_samples' = nres
               /\ neg_pred' = np
               /\ pred' = Blend(pred, np, true_gs)
               /\ calls' = calls \o <<ca, a>>
       ELSE UNCHANGED <<pred, neg_pred, neg_block_res_samples, calls>>
    /\ dpc' = "update_cn"
    /\ UNCHANGED <<fvars, svars, pvars, dargs, img, i, pos,
                   block_res_samples>>

\* the Euler update and the step counter
ControlnetUpdate ==
    /\ dpc = "update_cn"
    /\ img' = EulerStep(img, t_curr, t_prev, pred)
    /\ i' = i + 1
    /\ pos' = pos + 1
    /\ dpc' = "denoise_controlnet"
    /\ UNCHANGED <<fvars, svars, pvars, dargs, pred, neg_pred,
                   block_res_samples, neg_block_res_samples, calls>>

\* the iterator is exhausted: return img
ControlnetReturn ==
    /\ dpc = "denoise_controlnet"
    /\ pos = NumPairs
    /\ dpc' = "returned_cn"
    /\ UNCHANGED <<fvars, svars, pvars, dargs, img, i, pos, pred, neg_pred,
                   block_res_samples, neg_block_res_samples, calls>>

ControlnetStep ==
    \/ ControlnetNext
    \/ ControlnetCall
    \/ ControlnetForward
    \/ ControlnetCfg
    \/ ControlnetUpdate
    \/ ControlnetReturn

SpecControlnet == ControlnetInit /\ [][ControlnetStep]_vars

-----------------------------------------------------------------------------
(* Properties of denoise *)

IsNegCall(a) == a.txt = "neg_txt" \/ a.txt_ids = "neg_txt_ids" \/ a.y = "neg_vec"
IsCondCall(a) == a.txt = "txt" /\ a.txt_ids = "txt_ids" /\ a.y = "vec"
ForwardCalls == {k \in 1..Len(calls) : calls[k].fn = "model_forward"}
NegCalls(f) == {k \in 1..Len(calls) : calls[k].fn = f /\ IsNegCall(calls[k])}
CondCalls(f) == {k \in 1..Len(calls) : calls[k].fn = f /\ IsCondCall(calls[k])}
\* how many of the step indices 0 .. n-1 are at or past the CFG start
StepsWithCfg(n) == Cardinality({j \in 0..(n - 1) : j >= timestep_to_start_cfg})

\* the loop that omits CFG blending entirely, from pair k on
RECURSIVE PlainEuler(_, _)
PlainEuler(im, k) ==
    IF k > NumPairs THEN im
    ELSE PlainEuler(
            im + (timesteps[k + 1] - timesteps[k])
                   * StubForward(model,
                        ForwardArgs(im, Cond, timesteps[k], guidance, None)),
            k + 1)

\* C1: with true_gs = 1 and timestep_to_start_cfg beyond the last step index,
\* denoise never makes a forward pass with the negative inputs, makes exactly
\* N forward passes, all conditional, and returns what the loop without CFG
\* blending returns.
C1_NoCfgIsPlainEuler ==
    (true_gs = 1 /\ timestep_to_start_cfg > NumPairs - 1) =>
        /\ \A k \in 1..Len(calls) :
              calls[k].fn = "model_forward" /\ IsCondCall(calls[k])
        /\ dpc = "returned" =>
              /\ Len(calls) = NumPairs
              /\ img = PlainEuler(img0, 1)

C1_Witness ==
    /\ dpc = "returned"
    /\ true_gs = 1
    /\ timestep_to_start_cfg = NumPairs
    /\ NumPairs >= 2
    /\ model.kind = "dyn"
    /\ img # img0

\* C2: with a stub that returns the same constant c on every call, denoise
\* returns img0 + (t_N - t_0) * c after one update per adjacent pair; for the
\* schedule [1.0, 0.5, 0.0] and c = 1 that is img0 - 1.0.
C2_ConstantModelTelescopes ==
    (dpc = "returned" /\ model.kind = "const") =>
        /\ i = NumPairs
        /\ img = img0 + (timesteps[Len(timesteps)] - timesteps[1]) * model.c
        /\ (timesteps = <<One, 1, 0>> /\ model.c = 1) => img = img0 - One

C2_Witness ==
    /\ dpc = "returned"
    /\ model = [kind |-> "const", c |-> 1]
    /\ timesteps = <<One, 1, 0>>
    /\ timestep_to_start_cfg = 1
    /\ true_gs = 2
    /\ img = img0 - One

\* C9: at step index i the negative forward pass is made iff
\* i >= timestep_to_start_cfg; it follows the conditional pass, on the same
\* latent and the same t_curr; the prediction the Euler update uses is
\* neg_pred + true_gs * (pred - neg_pred) when it is made and the conditional
\* prediction otherwise.
C9_CfgGateAndBlend ==
    /\ i = pos
    /\ Cardinality(CondCalls("model_forward"))
          = i + (IF dpc \in {"cfg", "update"} THEN 1 ELSE 0)
    /\ Cardinality(NegCalls("model_forward"))
          = StepsWithCfg(i)
              + (IF dpc = "update" /\ i >= timestep_to_start_cfg THEN 1 ELSE 0)
    /\ dpc = "update" =>
          LET n == Len(calls)
              cond == ForwardArgs(img, Cond, t_curr, guidance, None)
              neg == ForwardArgs(img, NegCond, t_curr, guidance, None)
          IN IF i >= timestep_to_start_cfg
             THEN /\ n >= 2
                  /\ calls[n - 1] = cond
                  /\ calls[n] = neg
                  /\ neg_pred = StubForward(model, neg)
                  /\ pred = StubForward(model, neg)
                       + true_gs * (StubForward(model, cond)
                                      - StubForward(model, neg))
             ELSE /\ n >= 1
                  /\ calls[n] = cond
                  /\ pred = StubForward(model, cond)

C9_Witness ==
    /\ dpc = "update"
    /\ timestep_to_start_cfg = 1
    /\ i = 2
    /\ true_gs = 2
    /\ model.kind = "dyn"
    /\ pred # StubForward(model, ForwardArgs(img, Cond, t_curr, guidance, None))
    /\ Cardinality(NegCalls("model_forward")) = 2

-----------------------------------------------------------------------------
(* Properties of denoise_controlnet *)

C10_Calls ==
    /\ i = pos
    /\ \A k \in ForwardCalls :
          /\ k > 1
          /\ calls[k - 1].fn = "controlnet"
          /\ calls[k - 1].img = calls[k].img
          /\ calls[k - 1].timesteps = calls[k].timesteps
          /\ calls[k - 1].txt = calls[k].txt
          /\ calls[k - 1].txt_ids = calls[k].txt_ids
          /\ calls[k - 1].y = calls[k].y
          /\ IsCondCall(calls[k]) \/ (calls[k].txt = "neg_txt"
                /\ calls[k].txt_ids = "neg_txt_ids" /\ calls[k].y = "neg_vec")
          /\ LET r == StubControlnet(calls[k - 1])
             IN calls[k].block_controlnet_hidden_states
                   = Some([j \in 1..Len(r) |-> r[j] * controlnet_gs])
    /\ Cardinality(NegCalls("controlnet"))
          = StepsWithCfg(i)
              + (IF dpc = "update_cn" /\ i >= timestep_to_start_cfg
                 THEN 1 ELSE 0)
    /\ Cardinality(CondCalls("controlnet"))
          = i + (IF dpc \in {"forward_cn", "cfg_cn", "update_cn"} THEN 1 ELSE 0)
    /\ Cardinality(ForwardCalls)
          = Cardinality(NegCalls("controlnet"))
              + i + (IF dpc \in {"cfg_cn", "update_cn"} THEN 1 ELSE 0)
    /\ dpc = "update_cn" =>
          LET n == Len(calls)
          IN IF i >= timestep_to_start_cfg
             THEN /\ n >= 4
                  /\ IsCondCall(calls[n - 2])
                  /\ IsNegCall(calls[n])
                  /\ calls[n].img = img /\ calls[n].timesteps = t_curr
                  /\ calls[n - 2].img = img /\ calls[n - 2].timesteps = t_curr
                  /\ pred = StubForward(model, calls[n])
                       + true_gs * (StubForward(model, calls[n - 2])
                                      - StubForward(model, calls[n]))
             ELSE /\ n >= 2
                  /\ IsCondCall(calls[n])
                  /\ calls[n].img = img /\ calls[n].timesteps = t_curr
                  /\ pred = StubForward(model, calls[n])

\* C10: in denoise_controlnet every forward pass directly follows a controlnet
\* call made with the same latent, timestep and conditioning branch; the
\* residuals of that call, each times controlnet_gs, are the ones the forward
\* pass gets; the negative controlnet call is made only in steps with
\* i >= timestep_to_start_cfg; step index, CFG blend and Euler update are
\* those of denoise.
C10_ControlnetThreading ==
    /\ []C10_Calls
    /\ [][dpc = "update_cn" =>
            /\ img' = img + (t_prev - t_curr) * pred
            /\ i' = i + 1]_vars

C10_Witness ==
    /\ dpc = "update_cn"
    /\ timestep_to_start_cfg = 1
    /\ i = 2
    /\ controlnet_gs = 2
    /\ true_gs = 2
    /\ model.kind = "dyn"
    /\ Cardinality(NegCalls("controlnet")) = 2
    /\ calls[Len(calls)].block_controlnet_hidden_states
          # Some(neg_block_res_samples)

-----------------------------------------------------------------------------
(* model_forward *)

MaxDouble == 3     \* the stub network has 0 .. MaxDouble dual-stream blocks
MaxSingle == 1     \* and 0 .. MaxSingle single-stream blocks
MaxResiduals == 3  \* a residual set has 1 .. MaxResiduals tensors

\* A token stream (batch, tokens, features) is the sequence of its tokens,
\* each stood for by one number; a residual is one number added to every token.
AddToAll(s, r) == [k \in 1..Len(s) |-> s[k] + r]

\* the sub-components of the stub network
ImgIn(x) == AddToAll(x, 1)
TxtIn(x) == AddToAll(x, 2)
TimestepEmbedding(t) == 2 * t
TimeIn(e) == e + 1
GuidanceIn(e) == e + 2
VectorIn(y) == y + 3
PeEmbedder(ids) == Len(ids)
DoubleBlock(k, im, tx, vec, pe) ==
    [img |-> AddToAll(im, SeqSum(tx) + vec + k),
     txt |-> AddToAll(tx, SeqSum(im) + pe)]
SingleBlock(k, x, vec, pe) == AddToAll(x, vec + pe + k)
FinalLayer(x, vec) == AddToAll(x, vec)

BadRankBoth(img_ndim, txt_ndim) == img_ndim # 3 /\ txt_ndim # 3
\* `if img.ndim != 3 or txt.ndim != 3`
BadRank(img_ndim, txt_ndim) == img_ndim # 3 \/ txt_ndim # 3

ResidualIndexByDepth(index, depth) == index % depth
\* `block_controlnet_hidden_states[index_block % 2]`
ResidualIndex(index, depth) == index % 2

ForwardInit ==
    /\ f_params \in [guidance_embed : BOOLEAN,
                     double_blocks : 0..MaxDouble,
                     single_blocks : 0..MaxSingle]
    /\ f_img_ndim \in 2..4
    /\ f_txt_ndim \in 2..4
    /\ f_guidance \in {None, Some(4)}
    /\ f_hidden_states \in
          {None} \cup {Some(r) : r \in SeqsOf({10, 20}, 1, MaxResiduals)}
    /\ f_img0 \in {<<0>>, <<1, 2>>}
    /\ f_txt0 = <<5>>
    /\ fpc = "model_forward"
    /\ f_img = f_img0
    /\ f_txt = f_txt0
    /\ f_vec = 0
    /\ f_pe = 0
    /\ controlnet_depth = None
    /\ index_block = 0
    /\ f_result = [kind |-> "running"]
    /\ trace = <<>>
    /\ block_io = <<>>
    /\ DenoiseIdle
    /\ ScheduleIdle
    /\ PrepareIdle

Raise(kind) ==
    /\ fpc' = "raised"
    /\ f_result' = [kind |-> kind]

\* the rank check
ForwardCheckRank ==
    /\ fpc = "model_forward"
    /\ IF BadRank(f_img_ndim, f_txt_ndim)
       THEN Raise("ValueError")
       ELSE fpc' = "img_in" /\ UNCHANGED f_result
    /\ UNCHANGED <<dvars, svars, pvars, fargs, f_img, f_txt, f_vec, f_pe,
                   controlnet_depth, index_block, trace, block_io>>

\* `img = model.img_in(img)`
ForwardImgIn ==
    /\ fpc = "img_in"
    /\ f_img' = ImgIn(f_img)
    /\ trace' = Append(trace, "img_in")
    /\ fpc' = "time_in"
    /\ UNCHANGED <<dvars, svars, pvars, fargs, f_txt, f_vec, f_pe,
                   controlnet_depth, index_block, f_result, block_io>>

\* `vec = model.time_in(timestep_embedding(timesteps, 256))`
ForwardTimeIn ==
    /\ fpc = "time_in"
    /\ f_vec' = TimeIn(TimestepEmbedding(1))
    /\ trace' = Append(trace, "time_in")
    /\ fpc' = "guidance"
    /\ UNCHANGED <<dvars, svars, pvars, fargs, f_img, f_txt, f_pe,
                   controlnet_depth, index_block, f_result, block_io>>

\* the guidance embedding, with its check of the guidance argument
ForwardGuidance ==
    /\ fpc = "guidance"
    /\ IF f_params.guidance_embed
       THEN IF f_guidance = None
            THEN Raise("ValueError") /\ UNCHANGED <<f_vec, trace>>
            ELSE /\ f_vec' = f_vec + GuidanceIn(TimestepEmbedding(Get(f_guidance)))
                 /\ trace' = Append(trace, "guidance_in")
                 /\ fpc' = "vector_in"
                 /\ UNCHANGED f_result
       ELSE fpc' = "vector_in" /\ UNCHANGED <<f_vec, trace, f_result>>
    /\ UNCHANGED <<dvars, svars, pvars, fargs, f_img, f_txt, f_pe,
                   controlnet_depth, index_block, block_io>>

\* `vec = vec + model.vector_in(y)`
ForwardVectorIn ==
    /\ fpc = "vector_in"
    /\ f_vec' = f_vec + VectorIn(1)
    /\ trace' = Append(trace, "vector_in")
    /\ fpc' = "txt_in"
    /\ UNCHANGED <<dvars, svars, pvars, fargs, f_img, f_txt, f_pe,
                   controlnet_depth, index_block, f_result, block_io>>

\* `txt = model.txt_in(txt)`
ForwardTxtIn ==
    /\ fpc = "txt_in"
    /\ f_txt' = TxtIn(f_txt)
    /\ trace' = Append(trace, "txt_in")
    /\ fpc' = "pe_embedder"
    /\ UNCHANGED <<dvars, svars, pvars, fargs, f_img, f_vec, f_pe,
                   controlnet_depth, index_block, f_result, block_io>>

\* the ids of the text tokens, then of the image tokens, and their encoding;
\* then the length of the residual set, when one is given
ForwardPe ==
    /\ fpc = "pe_embedder"
    /\ LET txt_ids == [k \in 1..Len(f_txt) |-> "txt_id"]
           img_ids == [k \in 1..Len(f_img) |-> "img_id"]
           ids == txt_ids \o img_ids
       IN f_pe' = PeEmbedder(ids)
    /\ trace' = Append(trace, "pe_embedder")
    /\ controlnet_depth' =
          IF f_hidden_states # None THEN Some(Len(Get(f_hidden_states)))
          ELSE controlnet_depth
    /\ index_block' = 0
    /\ fpc' = "double_blocks"
    /\ UNCHANGED <<dvars, svars, pvars, fargs, f_img, f_txt, f_vec, f_result,
                   block_io>>

\* one iteration of the loop over the dual-stream blocks: the block, then the
\* controlnet residual
ForwardDoubleBlock ==
    /\ fpc = "double_blocks"
    /\ index_block < f_params.double_blocks
    /\ LET out == DoubleBlock(index_block, f_img, f_txt, f_vec, f_pe)
           io == [index |-> index_block, img_in |-> f_img, txt_in |-> f_txt,
                  img_out |-> out.img, txt_out |-> out.txt]
       IN /\ trace' = Append(trace, "double_block")
          /\ block_io' = Append(block_io, io)
          /\ f_txt' = out.txt
          /\ IF f_hidden_states # None
             THEN LET res == Get(f_hidden_states)
                      at == ResidualIndex(index_block, Get(controlnet_depth))
                  IN IF at < Len(res)
                     THEN /\ f_img' = AddToAll(out.img, res[at + 1])
                          /\ index_block' = index_block + 1
                          /\ UNCHANGED <<fpc, f_result>>
                     ELSE /\ Raise("IndexError")
                          /\ f_img' = out.img
                          /\ UNCHANGED index_block
             ELSE /\ f_img' = out.img
                  /\ index_block' = index_block + 1
                  /\ UNCHANGED <<fpc, f_result>>
    /\ UNCHANGED <<dvars, svars, pvars, fargs, f_vec, f_pe, controlnet_depth>>

\* the streams are joined, text first, and go through the single-stream
\* blocks; the text part is cut off again
ForwardSingleBlocks ==
    /\ fpc = "double_blocks"
    /\ index_block = f_params.double_blocks
    /\ LET joined == f_txt \o f_img
           RECURSIVE Run(_, _)
           Run(x, k) == IF k = f_params.single_blocks THEN x
                        ELSE Run(SingleBlock(k, x, f_vec, f_pe), k + 1)
           done == Run(joined, 0)
       IN f_img' = SubSeq(done, Len(f_txt) + 1, Len(done))
    /\ trace' = trace \o [k \in 1..f_params.single_blocks |-> "single_block"]
    /\ fpc' = "final_layer"
    /\ UNCHANGED <<dvars, svars, pvars, fargs, f_txt, f_vec, f_pe,
                   controlnet_depth, index_block, f_result, block_io>>

\* `img = model.final_layer(img, vec)` and the return
ForwardFinalLayer ==
    /\ fpc = "final_layer"
    /\ f_img' = FinalLayer(f_img, f_vec)
    /\ trace' = Append(trace, "final_layer")
    /\ f_result' = [kind |-> "returned", value |-> FinalLayer(f_img, f_vec)]
    /\ fpc' = "returned"
    /\ UNCHANGED <<dvars, svars, pvars, fargs, f_txt, f_vec, f_pe,
                   controlnet_depth, index_block, block_io>>

ForwardStep ==
    \/ ForwardCheckRank
    \/ ForwardImgIn
    \/ ForwardTimeIn
    \/ ForwardGuidance
    \/ ForwardVectorIn
    \/ ForwardTxtIn
    \/ ForwardPe
    \/ ForwardDoubleBlock
    \/ ForwardSingleBlocks
    \/ ForwardFinalLayer

SpecForward == ForwardInit /\ [][ForwardStep]_vars

-----------------------------------------------------------------------------
(* Properties of model_forward *)

Finished == f_result.kind \in {"returned", "ValueError", "IndexError"}
RankError == f_img_ndim # 3 \/ f_txt_ndim # 3
GuidanceError == f_params.guidance_embed /\ f_guidance = None

\* C6 as stated: a validation error is raised exactly when a rank is wrong or
\* the guidance a guidance-embedding model needs is null, and then before any
\* sub-component of the network has been invoked.
C6_AsClaimed ==
    Finished =>
        /\ f_result.kind = "ValueError" <=> (RankError \/ GuidanceError)
        /\ f_result.kind = "ValueError" => trace = <<>>

\* C6, amended: a validation error is raised exactly when a rank is wrong or
\* the guidance a guidance-embedding model needs is null, and no prediction is
\* returned then.  The rank error is raised before any sub-component is
\* invoked; the guidance error is raised after img_in and time_in have run and
\* before every other sub-component.
C6_ValidationErrors ==
    Finished =>
        /\ f_result.kind = "ValueError" <=> (RankError \/ GuidanceError)
        /\ f_result.kind = "ValueError" => DOMAIN f_result = {"kind"}
        /\ RankError => trace = <<>>
        /\ (~RankError /\ GuidanceError) => trace = <<"img_in", "time_in">>

C6_Witness ==
    /\ f_result.kind = "ValueError"
    /\ f_img_ndim = 3 /\ f_txt_ndim = 3
    /\ f_params.guidance_embed /\ f_guidance = None
    /\ trace = <<"img_in", "time_in">>

\* the state at the head of the dual-stream loop after block k - 1 and its
\* residual: what the block returned plus residual number at (from 0)
AfterBlock(k, at) ==
    LET io == block_io[k]
        res == Get(f_hidden_states)
    IN /\ at < Len(res)
       /\ f_img = [j \in 1..Len(io.img_out) |-> io.img_out[j] + res[at + 1]]
       /\ f_txt = io.txt_out

BlocksInOrder == \A k \in 1..Len(block_io) : block_io[k].index = k - 1

-----------------------------------------------------------------------------
(* Floating-point values: a finite value is an exact fraction n/d in lowest  *)
(* terms, and there are the IEEE values +inf and NaN.  Rounding is not       *)
(* modelled; overflow and division by zero are.                              *)

RECURSIVE Gcd(_, _)
Gcd(a, b) == IF b = 0 THEN a ELSE Gcd(b, a % b)
Abs(a) == IF a < 0 THEN -a ELSE a

Fin(n, d) ==
    LET g == Gcd(Abs(n), Abs(d))
        sg == IF d < 0 THEN -1 ELSE 1
    IN [k |-> "fin", n |-> sg * (n \div g), d |-> sg * (d \div g)]
Inf == [k |-> "inf", n |-> 1, d |-> 0]
NaN == [k |-> "nan", n |-> 0, d |-> 0]
Whole(n) == Fin(n, 1)
\* what math.exp gives in place of a value when the result leaves float64
OverflowError == [k |-> "OverflowError", n |-> 0, d |-> 0]

\* a < b for finite a, b, by their integer parts and then the remainders, so
\* that no product of numerators and denominators is formed
RECURSIVE FinLess(_, _)
FinLess(a, b) ==
    LET qa == a.n \div a.d
        qb == b.n \div b.d
        ra == a.n % a.d
        rb == b.n % b.d
    IN IF qa # qb THEN qa < qb
       ELSE IF rb = 0 THEN FALSE
       ELSE IF ra = 0 THEN TRUE
       ELSE FinLess([k |-> "fin", n |-> b.d, d |-> rb],
                    [k |-> "fin", n |-> a.d, d |-> ra])

\* IEEE comparison: every comparison with NaN is false
FLess(a, b) ==
    CASE a.k = "nan" \/ b.k = "nan" -> FALSE
      [] a.k = "inf" -> FALSE
      [] b.k = "inf" -> TRUE
      [] OTHER -> FinLess(a, b)

FAdd(a, b) ==
    CASE a.k = "nan" \/ b.k = "nan" -> NaN
      [] a.k = "inf" \/ b.k = "inf" -> Inf
      [] OTHER -> Fin(a.n * b.d + b.n * a.d, a.d * b.d)

\* a - b for b finite
FSub(a, b) ==
    CASE a.k = "nan" \/ b.k = "nan" -> NaN
      [] a.k = "inf" -> Inf
      [] OTHER -> Fin(a.n * b.d - b.n * a.d, a.d * b.d)

\* a * b for a, b >= 0
FMul(a, b) ==
    CASE a.k = "nan" \/ b.k = "nan" -> NaN
      [] a.k = "inf" -> IF b.k = "fin" /\ b.n = 0 THEN NaN ELSE Inf
      [] b.k = "inf" -> IF a.n = 0 THEN NaN ELSE Inf
      [] OTHER -> Fin(a.n * b.n, a.d * b.d)

\* a / b for a, b >= 0
FDiv(a, b) ==
    CASE a.k = "nan" \/ b.k = "nan" -> NaN
      [] a.k = "inf" -> IF b.k = "inf" THEN NaN ELSE Inf
      [] b.k = "inf" -> Whole(0)
      [] b.n = 0 -> IF a.n = 0 THEN NaN ELSE Inf
      [] OTHER -> Fin(a.n * b.d, a.d * b.n)

\* a ** sigma for a natural number sigma
RECURSIVE FPow(_, _)
FPow(a, sigma) == IF sigma = 1 THEN a ELSE FMul(a, FPow(a, sigma - 1))

-----------------------------------------------------------------------------
(* get_schedule *)

MaxNumSteps == 4   \* num_steps ranges over 0 .. MaxNumSteps

\* the image sequence lengths tried: small ones, the two anchors of the
\* linear estimate, and the lengths around which exp(mu) leaves float32
\* and then float64
SeqLens == {1, 256, 1024, 4096, 521449, 521450, 4200000}

\* log of the largest float32 and of the largest float64, to four decimals
LogFloatMax == Fin(887228, 10000)
LogDoubleMax == Fin(7097827, 10000)

\* the finite values exp(mu) is let to take: what the schedule needs of
\* exp(mu) is its sign, and whether it is finite
ExpValues == {Fin(3, 2), Whole(2), Whole(3), Fin(7, 2), Whole(20)}

\* math.exp(mu) as the float32 the tensor arithmetic uses: OverflowError
\* when the result leaves float64, +inf when it leaves float32
MathExp(m) ==
    IF FLess(LogDoubleMax, m) THEN {OverflowError}
    ELSE IF FLess(LogFloatMax, m) THEN {Inf}
    ELSE ExpValues

\* `get_lin_function(x1, y1, x2, y2)` applied to x
LinFunction(x1, y1, x2, y2, x) ==
    LET m == FDiv(FSub(y2, y1), FSub(x2, x1))
        b == FSub(y1, FMul(m, x1))
    IN FAdd(FMul(m, x), b)

\* `math.exp(mu) / (math.exp(mu) + (1 / t - 1) ** sigma)`, e being exp(mu)
TimeShift(e, sigma, t) ==
    FDiv(e, FAdd(e, FPow(FSub(FDiv(Whole(1), t), Whole(1)), sigma)))

NumPointsNoExtra(n) == n
\* `num_steps + 1`: the extra step for zero
NumPoints(n) == n + 1

\* `torch.linspace(start, end, steps)`
Linspace(start, end, steps) ==
    IF steps = 1 THEN <<Whole(start)>>
    ELSE [k \in 1..steps |->
            FAdd(Whole(start), FMul(Whole(k - 1), Fin(end - start, steps - 1)))]

ScheduleInit ==
    /\ num_steps \in 0..MaxNumSteps
    /\ image_seq_len \in SeqLens
    /\ base_shift = Fin(1, 2)
    /\ max_shift = Fin(115, 100)
    /\ shift \in BOOLEAN
    /\ spc = "get_schedule"
    /\ s_timesteps = <<>>
    /\ mu = None
    /\ s_result = [kind |-> "running"]
    /\ DenoiseIdle
    /\ ForwardIdle
    /\ PrepareIdle

\* `timesteps = torch.linspace(1, 0, num_steps + 1)`
ScheduleLinspace ==
    /\ spc = "get_schedule"
    /\ s_timesteps' = Linspace(1, 0, NumPoints(num_steps))
    /\ spc' = IF shift THEN "shift" ELSE "return"
    /\ UNCHANGED <<dvars, fvars, pvars, sargs, mu, s_result>>

\* the shift: mu from the linear estimate, then the warp of every timestep
ScheduleShift ==
    /\ spc = "shift"
    /\ LET m == LinFunction(Whole(256), base_shift, Whole(4096), max_shift,
                            Whole(image_seq_len))
       IN /\ mu' = Some(m)
          /\ \E e \in MathExp(m) :
                IF e = OverflowError
                THEN /\ s_result' = [kind |-> "OverflowError"]
                     /\ spc' = "raised"
                     /\ UNCHANGED s_timesteps
                ELSE /\ s_timesteps' =
                          [k \in 1..Len(s_timesteps) |->
                              TimeShift(e, 1, s_timesteps[k])]
                     /\ spc' = "return"
                     /\ UNCHANGED s_result
    /\ UNCHANGED <<dvars, fvars, pvars, sargs>>

\* `return timesteps.tolist()`
ScheduleReturn ==
    /\ spc = "return"
    /\ s_result' = [kind |-> "returned", value |-> s_timesteps]
    /\ spc' = "returned"
    /\ UNCHANGED <<dvars, fvars, pvars, sargs, s_timesteps, mu>>

ScheduleStep ==
    \/ ScheduleLinspace
    \/ ScheduleShift
    \/ ScheduleReturn

SpecSchedule == ScheduleInit /\ [][ScheduleStep]_vars

-----------------------------------------------------------------------------
(* Properties of get_schedule *)

StrictlyDecreasing(l) == \A k \in 1..(Len(l) - 1) : FLess(l[k + 1], l[k])

\* C4: for num_steps n >= 1 and every image_seq_len, get_schedule without
\* shift returns n + 1 values, strictly decreasing, from 1.0 to 0.0, and the
\* list is the one n alone determines: entry k (from 0) is (n - k) / n.
C4_LinearSchedule ==
    (s_result.kind = "returned" /\ ~shift /\ num_steps >= 1) =>
        LET l == s_result.value
        IN /\ Len(l) = num_steps + 1
           /\ l[1] = Whole(1)
           /\ l[Len(l)] = Whole(0)
           /\ StrictlyDecreasing(l)
           /\ \A k \in 1..Len(l) : l[k] = Fin(num_steps - (k - 1), num_steps)

C4_Witness ==
    /\ s_result.kind = "returned"
    /\ ~shift
    /\ num_steps = 4
    /\ image_seq_len = 4096
    /\ s_result.value = <<Whole(1), Fin(3, 4), Fin(1, 2), Fin(1, 4), Whole(0)>>

\* C5: for num_steps n >= 1 and every image_seq_len, get_schedule with shift
\* returns n + 1 values, strictly decreasing, the first 1.0, the last 0 or not
\* finite.
C5_AsClaimed ==
    (shift /\ num_steps >= 1 /\ spc \in {"returned", "raised"}) =>
        /\ s_result.kind = "returned"
        /\ LET l == s_result.value
           IN /\ Len(l) = num_steps + 1
              /\ l[1] = Whole(1)
              /\ l[Len(l)] \in {Whole(0), Inf, NaN}
              /\ StrictlyDecreasing(l)

\* the same, for the sequence lengths at which exp(mu) is a finite float32
C5_WhileExpIsFinite ==
    (shift /\ num_steps >= 1 /\ spc \in {"returned", "raised"}
       /\ ~FLess(LogFloatMax, Get(mu))) =>
        /\ s_result.kind = "returned"
        /\ LET l == s_result.value
           IN /\ Len(l) = num_steps + 1
              /\ l[1] = Whole(1)
              /\ l[Len(l)] = Whole(0)
              /\ StrictlyDecreasing(l)

-----------------------------------------------------------------------------
(* Tensors: a shape and the elements, by index (from 0) *)

Idx(shape) ==
    CASE Len(shape) = 2 ->
            {<<a, b>> : a \in 0..(shape[1] - 1), b \in 0..(shape[2] - 1)}
      [] Len(shape) = 3 ->
            {<<a, b, c>> : a \in 0..(shape[1] - 1), b \in 0..(shape[2] - 1),
                           c \in 0..(shape[3] - 1)}
      [] Len(shape) = 4 ->
            {<<a, b, c, d>> : a \in 0..(shape[1] - 1), b \in 0..(shape[2] - 1),
                              c \in 0..(shape[3] - 1), d \in 0..(shape[4] - 1)}

\* a tensor is its shape and a value for every index
Tensor(shape, data) == [shape |-> shape, data |-> data]

\* `torch.zeros(shape)`
Zeros(shape) == Tensor(shape, [ix \in Idx(shape) |-> 0])

\* `repeat(t, "1 ... -> bs ...", bs=bs)`
RepeatBatch(t, bs) ==
    LET shape == <<bs>> \o Tail(t.shape)
    IN Tensor(shape, [ix \in Idx(shape) |-> t.data[<<0>> \o Tail(ix)]])

\* the significand bits of a dtype
DtypeBits(dtype) ==
    CASE dtype = "float32" -> 24
      [] dtype = "float16" -> 11
      [] dtype = "bfloat16" -> 8

RECURSIVE FloorLog2(_)
FloorLog2(v) == IF v < 2 THEN 0 ELSE 1 + FloorLog2(v \div 2)

\* the float with `bits` significand bits nearest to the integer v >= 0,
\* ties to even
RoundToBits(v, bits) ==
    IF v < 2^bits THEN v
    ELSE LET ulp == 2^(FloorLog2(v) - bits + 1)
             q == v \div ulp
             r == v % ulp
         IN IF 2 * r < ulp \/ (2 * r = ulp /\ q % 2 = 0) THEN q * ulp
            ELSE (q + 1) * ulp

\* `t.to(dtype=dtype)`
ToDtype(t, dtype) ==
    [shape |-> t.shape,
     data |-> [ix \in DOMAIN t.data |-> RoundToBits(t.data[ix], DtypeBits(dtype))]]

\* `math.ceil(a / b)`
CeilDiv(a, b) == (a + b - 1) \div b

-----------------------------------------------------------------------------
(* prepare and unpack *)

MaxBatch == 2      \* batch sizes 1 .. MaxBatch
MaxChannels == 2   \* channels 1 .. MaxChannels
MaxSide == 4       \* heights and widths 1 .. MaxSide
MaxTextLen == 2    \* text lengths 1 .. MaxTextLen

\* a height past the integers bfloat16 holds exactly, in token rows
BigRows == 2^8 + 2

Dtypes == {"float32", "float16", "bfloat16"}

\* the pixel sizes unpack is called with
Pixels == {16 * k - 15 : k \in 1..(MaxSide \div 2)}
            \cup {16 * k : k \in 1..(MaxSide \div 2)}
            \cup {16 * BigRows}

\* an input tensor of a shape: every element tells its index
Coded(shape) ==
    Tensor(shape,
           [ix \in Idx(shape) |->
               ((((ix[1] * shape[2] + ix[2]) * shape[3] + ix[3])
                   * shape[4]) + ix[4]) % 97])

ImgInputs ==
    {Coded(<<b, c, h, w>>) : b \in 1..MaxBatch, c \in 1..MaxChannels,
                             h \in 1..MaxSide, w \in 1..MaxSide}
      \cup {Coded(<<1, 1, 2 * BigRows, 2>>)}
      \cup {[shape |-> <<1, 1, 2, 2>>, data |-> d] :
               d \in [Idx(<<1, 1, 2, 2>>) -> {0, 1}]}

\* `rearrange(img, "b c (h ph) (w pw) -> b (h w) (c ph pw)", ph=2, pw=2)`:
\* the element of img that lands at token t, feature f, with w2 patch columns
PackSource(b, t, f, w2) ==
    <<b, f \div 4, 2 * (t \div w2) + ((f % 4) \div 2), 2 * (t % w2) + (f % 2)>>

Pack(t) ==
    LET b == t.shape[1]
        c == t.shape[2]
        h2 == t.shape[3] \div 2
        w2 == t.shape[4] \div 2
    IN Tensor(<<b, h2 * w2, c * 4>>,
              [ix \in Idx(<<b, h2 * w2, c * 4>>) |->
                  t.data[PackSource(ix[1], ix[2], ix[3], w2)]])

UnpackSourceSwapped(b, c, y, x, w) ==
    <<b, ((y \div 2) * w) + (x \div 2), ((c * 2 + (x % 2)) * 2) + (y % 2)>>
\* `rearrange(x, "b (h w) (c ph pw) -> b c (h ph) (w pw)", h=.., w=.., ph=2,
\* pw=2)`: the element of the tokens that lands at channel c, row y, column x
UnpackSource(b, c, y, x, w) ==
    <<b, ((y \div 2) * w) + (x \div 2), ((c * 2 + (y % 2)) * 2) + (x % 2)>>

\* `repeat(img_ids, "h w c -> b (h w) c", b=bs)`: the token of grid entry
\* (row, col)
IdsToken(row, col, h2, w2) == row * w2 + col

PrepareInit ==
    /\ p_img \in ImgInputs
    /\ p_dtype \in Dtypes
    /\ p_txt \in {Tensor(<<b, n, 1>>,
                        [ix \in Idx(<<b, n, 1>>) |-> 3 + ix[1] + 2 * ix[2]]) :
                    b \in 1..MaxBatch, n \in 1..MaxTextLen}
    /\ p_vec \in {Tensor(<<b, 1>>, [ix \in Idx(<<b, 1>>) |-> 7 + ix[1]]) :
                    b \in 1..MaxBatch}
    /\ ppc = "prepare"
    /\ p_packed = None
    /\ p_img_ids = None
    /\ p_txt_rep = None
    /\ p_vec_rep = None
    /\ p_txt_ids = None
    /\ p_result = [kind |-> "running"]
    /\ u_result = [kind |-> "running"]
    /\ DenoiseIdle
    /\ ForwardIdle
    /\ ScheduleIdle

bs == p_img.shape[1]

\* the rearrangement of img into tokens, which needs an even height and width
PreparePack ==
    /\ ppc = "prepare"
    /\ IF p_img.shape[3] % 2 # 0 \/ p_img.shape[4] % 2 # 0
       THEN /\ p_result' = [kind |-> "EinopsError"]
            /\ ppc' = "raised"
            /\ UNCHANGED p_packed
       ELSE /\ p_packed' =
                  LET packed == Pack(p_img)
                  IN IF packed.shape[1] = 1 /\ bs > 1
                     THEN RepeatBatch(packed, bs) ELSE packed
            /\ ppc' = "img_ids"
            /\ UNCHANGED p_result
    /\ UNCHANGED <<dvars, fvars, svars, pargs, p_img_ids, p_txt_rep,
                   p_vec_rep, p_txt_ids, u_result>>

\* the grid of positional ids, one per token and batch element
PrepareImgIds ==
    /\ ppc = "img_ids"
    /\ LET h2 == p_img.shape[3] \div 2
           w2 == p_img.shape[4] \div 2
           \* zeros(h // 2, w // 2, 3) with the row added to channel 1 and the
           \* column to channel 2
           grid == [row \in 0..(h2 - 1), col \in 0..(w2 - 1) |->
                       <<0, RoundToBits(0 + row, DtypeBits("float32")),
                            RoundToBits(0 + col, DtypeBits("float32"))>>]
       IN p_img_ids' =
             [shape |-> <<bs, h2 * w2, 3>>,
              data |-> [ix \in Idx(<<bs, h2 * w2, 3>>) |->
                          LET at == CHOOSE rc \in (0..(h2 - 1)) \X (0..(w2 - 1)) :
                                       IdsToken(rc[1], rc[2], h2, w2) = ix[2]
                          IN grid[at[1], at[2]][ix[3] + 1]]]
    /\ ppc' = "cond"
    /\ UNCHANGED <<dvars, fvars, svars, pargs, p_packed, p_txt_rep, p_vec_rep,
                   p_txt_ids, p_result, u_result>>

\* the batch broadcast of txt and vec, and the ids of the text tokens
PrepareCond ==
    /\ ppc = "cond"
    /\ LET txt == IF p_txt.shape[1] = 1 /\ bs > 1
                  THEN RepeatBatch(p_txt, bs) ELSE p_txt
       IN /\ p_txt_rep' = txt
          /\ p_txt_ids' = Zeros(<<bs, txt.shape[2], 3>>)
    /\ p_vec_rep' = IF p_vec.shape[1] = 1 /\ bs > 1
                    THEN RepeatBatch(p_vec, bs) ELSE p_vec
    /\ ppc' = "return"
    /\ UNCHANGED <<dvars, fvars, svars, pargs, p_packed, p_img_ids, p_result,
                   u_result>>

\* the dict returned, everything but img brought to the dtype of img
PrepareReturn ==
    /\ ppc = "return"
    /\ p_result' = [kind |-> "returned",
                    img |-> p_packed,
                    img_ids |-> ToDtype(p_img_ids, p_dtype),
                    txt |-> ToDtype(p_txt_rep, p_dtype),
                    txt_ids |-> ToDtype(p_txt_ids, p_dtype),
                    vec |-> ToDtype(p_vec_rep, p_dtype)]
    /\ ppc' = "unpack"
    /\ UNCHANGED <<dvars, fvars, svars, pargs, p_packed, p_img_ids, p_txt_rep,
                   p_vec_rep, p_txt_ids, u_result>>

\* unpack(x, height, width) on the packed latent
Unpack ==
    /\ ppc = "unpack"
    /\ \E height \in Pixels, width \in Pixels :
          LET x == p_result.img
              h == CeilDiv(height, 16)
              w == CeilDiv(width, 16)
              c == x.shape[3] \div 4
          IN IF x.shape[2] # h * w \/ x.shape[3] % 4 # 0
             THEN u_result' = [kind |-> "EinopsError",
                               height |-> height, width |-> width]
             ELSE u_result' =
                    [kind |-> "returned", height |-> height, width |-> width,
                     value |->
                        Tensor(<<x.shape[1], c, h * 2, w * 2>>,
                               [ix \in Idx(<<x.shape[1], c, h * 2, w * 2>>) |->
                                   x.data[UnpackSource(ix[1], ix[2], ix[3],
                                                       ix[4], w)]])]
    /\ ppc' = "unpacked"
    /\ UNCHANGED <<dvars, fvars, svars, pargs, p_packed, p_img_ids, p_txt_rep,
                   p_vec_rep, p_txt_ids, p_result>>

PrepareStep ==
    \/ PreparePack
    \/ PrepareImgIds
    \/ PrepareCond
    \/ PrepareReturn
    \/ Unpack

SpecPrepare == PrepareInit /\ [][PrepareStep]_vars

-----------------------------------------------------------------------------
(* Properties of prepare and unpack *)

\* C3: for x of shape (B, C, H, W) with H = 2 * ceil(h / 16) and
\* W = 2 * ceil(w / 16), packing x as prepare does and unpacking the tokens
\* with the pixel height h and width w gives back x, element for element.
C3_UnpackInvertsPack ==
    (ppc = "unpacked"
       /\ p_img.shape[3] = 2 * CeilDiv(u_result.height, 16)
       /\ p_img.shape[4] = 2 * CeilDiv(u_result.width, 16)) =>
        /\ u_result.kind = "returned"
        /\ u_result.value.shape = p_img.shape
        /\ \A ix \in Idx(p_img.shape) : u_result.value.data[ix] = p_img.data[ix]

C3_Witness ==
    /\ ppc = "unpacked"
    /\ p_img.shape = <<2, 2, 2, 4>>
    /\ u_result.kind = "returned"
    /\ u_result.height = 1
    /\ u_result.width = 32
    /\ u_result.value = p_img
    /\ p_result.img.shape = <<2, 2, 8>>
    /\ p_result.img.data[<<1, 1, 5>>] = p_img.data[<<1, 1, 0, 3>>]

\* C7: prepare returns img_ids of shape (b, h*w, 3) whose token i*w + j is
\* (0, i, j) for every batch element, row i < h and column j < w, and txt_ids
\* of shape (b, text_len, 3) that are all zero.
C7_AsClaimed ==
    p_result.kind = "returned" =>
        LET h == p_img.shape[3] \div 2
            w == p_img.shape[4] \div 2
            ids == p_result.img_ids
            tids == p_result.txt_ids
        IN /\ ids.shape = <<bs, h * w, 3>>
           /\ \A b \in 0..(bs - 1), row \in 0..(h - 1), col \in 0..(w - 1) :
                 /\ ids.data[<<b, row * w + col, 0>>] = 0
                 /\ ids.data[<<b, row * w + col, 1>>] = row
                 /\ ids.data[<<b, row * w + col, 2>>] = col
           /\ tids.shape = <<bs, p_txt.shape[2], 3>>
           /\ \A ix \in Idx(tids.shape) : tids.data[ix] = 0

\* the same, where the dtype of img holds every row and column index exactly
C7_WhereIdsAreRepresentable ==
    (p_result.kind = "returned"
       /\ p_img.shape[3] \div 2 <= 2^DtypeBits(p_dtype)
       /\ p_img.shape[4] \div 2 <= 2^DtypeBits(p_dtype)) =>
        LET h == p_img.shape[3] \div 2
            w == p_img.shape[4] \div 2
            ids == p_result.img_ids
            tids == p_result.txt_ids
        IN /\ ids.shape = <<bs, h * w, 3>>
           /\ \A b \in 0..(bs - 1), row \in 0..(h - 1), col \in 0..(w - 1) :
                 /\ ids.data[<<b, row * w + col, 0>>] = 0
                 /\ ids.data[<<b, row * w + col, 1>>] = row
                 /\ ids.data[<<b, row * w + col, 2>>] = col
           /\ tids.shape = <<bs, p_txt.shape[2], 3>>
           /\ \A ix \in Idx(tids.shape) : tids.data[ix] = 0

====
